---------------------------- MODULE Spec2Model ----------------------------
(***************************************************************************)
(* slow-proxy: an HTTP test server whose /slow/{duration} handler holds    *)
(* the response open for a requested delay, writing one tick line per      *)
(* second, and returns on the first of: delay timer, request context       *)
(* cancelled, process context cancelled, tick write failed.                *)
(*                                                                         *)
(* Strings are sequences of one-character strings.  Durations are in       *)
(* milliseconds.  An action is an event (a request, a timer of the runtime *)
(* firing, a cancellation, a Flush returning) together with the run of the *)
(* goroutine it wakes, up to that goroutine's next blocking call: the      *)
(* select, or the Flush that sends a tick line to the client (rw.Write     *)
(* only appends the line to the response's buffer).  Computing takes no    *)
(* time.  Time is kept as the time left on each timer; it passes, up to    *)
(* the next timer that is due, between events.                             *)
(***************************************************************************)
EXTENDS Integers, Sequences, FiniteSets, TLC

\* ------------------------------------------------------------------ bounds
NumReq == 2          \* requests the server accepts in one run
MaxStall == 2        \* times the clock may advance during the flushes of one handler

\* ------------------------------------------------------- program constants
Millisecond == 1
Second == 1000 * Millisecond
Minute == 60 * Second
Hour == 60 * Minute
TickInterval == Second

StatusBadRequest == 400
StatusGatewayTimeout == 504
StatusNotFound == 404
StatusOK == 200
NoStatus == 0

\* ----------------------------------------------------------------- strings
Digits == {"0", "1", "2", "3", "4", "5", "6", "7", "8", "9"}

DigitVal(c) ==
    CASE c = "0" -> 0 [] c = "1" -> 1 [] c = "2" -> 2 [] c = "3" -> 3
      [] c = "4" -> 4 [] c = "5" -> 5 [] c = "6" -> 6 [] c = "7" -> 7
      [] c = "8" -> 8 [] c = "9" -> 9

Drop(s, n) == SubSeq(s, n + 1, Len(s))

Min(a, b) == IF a <= b THEN a ELSE b

\* Length of the longest prefix of s whose characters all satisfy InSet.
RECURSIVE PrefixLen(_, _)
PrefixLen(s, set) ==
    IF s = <<>> \/ Head(s) \notin set THEN 0 ELSE 1 + PrefixLen(Tail(s), set)

\* Length of the longest prefix of s with no character of set.
RECURSIVE PrefixLenNot(_, _)
PrefixLenNot(s, set) ==
    IF s = <<>> \/ Head(s) \in set THEN 0 ELSE 1 + PrefixLenNot(Tail(s), set)

RECURSIVE DecValue(_, _)
DecValue(s, acc) ==
    IF s = <<>> THEN acc ELSE DecValue(Tail(s), acc * 10 + DigitVal(Head(s)))

RECURSIVE Pow10(_)
Pow10(n) == IF n = 0 THEN 1 ELSE 10 * Pow10(n - 1)

\* ------------------------------------------------------ time.ParseDuration
\* unitMap: a unit's length as num/den milliseconds.
UnitKnown(u) ==
    u \in {<<"n", "s">>, <<"u", "s">>, <<"m", "s">>, <<"s">>, <<"m">>, <<"h">>}

UnitNum(u) ==
    CASE u = <<"n", "s">> -> 1
      [] u = <<"u", "s">> -> 1
      [] u = <<"m", "s">> -> Millisecond
      [] u = <<"s">> -> Second
      [] u = <<"m">> -> Minute
      [] u = <<"h">> -> Hour

UnitDen(u) ==
    CASE u = <<"n", "s">> -> 1000000
      [] u = <<"u", "s">> -> 1000
      [] OTHER -> 1

\* The loop of ParseDuration: ([0-9]*(\.[0-9]*)?[a-z]+)+ , summing into d.
\* Yields [ok, d]; ok is FALSE where ParseDuration returns an error.
RECURSIVE ParseTerms(_, _)
ParseTerms(s, d) ==
    IF s = <<>> THEN [ok |-> TRUE, d |-> d]
    ELSE IF Head(s) \notin (Digits \cup {"."}) THEN [ok |-> FALSE, d |-> 0]
    ELSE
      LET nInt == PrefixLen(s, Digits)
          v == DecValue(SubSeq(s, 1, nInt), 0)
          s1 == Drop(s, nInt)
          hasDot == s1 # <<>> /\ Head(s1) = "."
          s2 == IF hasDot THEN Tail(s1) ELSE s1
          nFrac == IF hasDot THEN PrefixLen(s2, Digits) ELSE 0
          f == DecValue(SubSeq(s2, 1, nFrac), 0)
          s3 == Drop(s2, nFrac)
          nUnit == PrefixLenNot(s3, Digits \cup {"."})
          u == SubSeq(s3, 1, nUnit)
          s4 == Drop(s3, nUnit)
      IN  IF nInt = 0 /\ nFrac = 0 THEN [ok |-> FALSE, d |-> 0]
          ELSE IF nUnit = 0 THEN [ok |-> FALSE, d |-> 0]
          ELSE IF ~UnitKnown(u) THEN [ok |-> FALSE, d |-> 0]
          ELSE ParseTerms(s4,
                 d + (v * UnitNum(u)) \div UnitDen(u)
                   + (f * UnitNum(u)) \div (Pow10(nFrac) * UnitDen(u)))

\* time.ParseDuration: [ok, d]; d = 0 whenever ok is FALSE.
ParseDuration(str) ==
    LET signed == str # <<>> /\ Head(str) \in {"-", "+"}
        neg == signed /\ Head(str) = "-"
        s == IF signed THEN Tail(str) ELSE str
    IN  IF s = <<"0">> THEN [ok |-> TRUE, d |-> 0]
        ELSE IF s = <<>> THEN [ok |-> FALSE, d |-> 0]
        ELSE LET r == ParseTerms(s, 0)
             IN  IF ~r.ok THEN r
                 ELSE [ok |-> TRUE, d |-> IF neg THEN 0 - r.d ELSE r.d]

\* ------------------------------------------------------------- mux routing
SlowPrefix == <<"/", "s", "l", "o", "w", "/">>
FailPath == <<"/", "f", "a", "i", "l">>

HasPrefix(s, p) == Len(s) >= Len(p) /\ SubSeq(s, 1, Len(p)) = p

\* The route "/slow/{duration}": the variable matches [^/]+ to the path's end.
MatchSlow(path) ==
    /\ HasPrefix(path, SlowPrefix)
    /\ LET rest == Drop(path, Len(SlowPrefix))
       IN  rest # <<>> /\ PrefixLenNot(rest, {"/"}) = Len(rest)

SlowVar(path) == Drop(path, Len(SlowPrefix))

\* Server.handler: the first matching route; no route is the router's 404.
Route(path) ==
    IF MatchSlow(path) THEN "slow"
    ELSE IF path = FailPath THEN "fail"
    ELSE "notfound"


\* ---------------------------------------------------------------- requests
\* net/http splits the request target at the first "?" into req.URL.Path
\* and req.URL.RawQuery; the router matches the path.
PathOf(target) == SubSeq(target, 1, PrefixLenNot(target, {"?"}))

QueryOf(target) == Drop(target, PrefixLenNot(target, {"?"}) + 1)

\* Request targets the clients send, and the methods they send them with.
Paths ==
    { SlowPrefix \o <<"2", "s">>,
      SlowPrefix \o <<"1", ".", "5", "s">>,
      SlowPrefix \o <<"5", "0", "0", "m", "s">>,
      SlowPrefix \o <<"5", "x">>,
      SlowPrefix,
      FailPath,
      FailPath \o <<"?", "x">> }

Methods == {"GET", "POST"}

Reqs == 1 .. NumReq

VARIABLES
    sigDone,      \* ctx of main (signal.NotifyContext) is cancelled: Server.ctx
    runningDone,  \* runningCtx of main is cancelled
    listener,     \* "open", "failed" (ListenAndServe returned an error), "closed"
    mainPc,       \* "wait" (<-runningCtx.Done()), "shutdown" (in server.Shutdown), "exited"
    shutdownLeft, \* time left on shutdownCtx while main is in server.Shutdown
    shutdownErr,  \* server.Shutdown returned an error (its context expired)
    reqs          \* per request: the goroutine serving it and its response

vars == <<sigDone, runningDone, listener, mainPc, shutdownLeft, shutdownErr, reqs>>

mainVars == <<sigDone, runningDone, listener, mainPc, shutdownLeft, shutdownErr>>

\* method, path, query: the request line.
\* pc: "none" not arrived; "select" slow blocked in the select of line 101;
\* "flush" in f.Flush; "done" the handler returned; "killed" the process
\* exited under it.  route: the handler the router chose.  exit: the return
\* taken ("req", "ctx", "timer", "werr"; "fail", "notfound" for the other
\* handlers).  timerOn, timerLeft, timerC: the timer is armed, the time left
\* on it, timer.C holds a value; the same for the ticker.  History: elapsed,
\* the time since the handler created its timer; over, for a handler that
\* returned, how long after its delay had elapsed (-1: before; counted up
\* to Late); stalls, how often time passed during the flush in progress and
\* the ones before it; slow, whether it ever did; cancelAge, the time since
\* the client cancelled (-1: it has not; counted up to Late).
NewReq ==
    [ pc |-> "none", method |-> "", path |-> <<>>, query |-> <<>>, route |-> "",
      pause |-> 0, perr |-> FALSE,
      status |-> NoStatus, reqDone |-> FALSE,
      timerOn |-> FALSE, timerLeft |-> 0, timerC |-> FALSE,
      tickerOn |-> FALSE, tickerLeft |-> 0, tickerC |-> FALSE,
      ticks |-> 0, flushes |-> 0, exit |-> "",
      elapsed |-> 0, over |-> -1, stalls |-> 0, slow |-> FALSE, cancelAge |-> -1 ]

Late == TickInterval + Millisecond

Init ==
    /\ sigDone = FALSE
    /\ runningDone = FALSE
    /\ listener = "open"
    /\ mainPc = "wait"
    /\ shutdownLeft = 0
    /\ shutdownErr = FALSE
    /\ reqs = [h \in Reqs |-> NewReq]

Alive == mainPc # "exited"

InFlight(h) == reqs[h].pc \in {"select", "flush"}

\* The goroutine of a request is gone. The handler stops neither its timer
\* nor its ticker; they reach nobody any more and are left out from here on.
Gone(r) ==
    [r EXCEPT !.timerOn = FALSE, !.timerLeft = 0, !.timerC = FALSE,
              !.tickerOn = FALSE, !.tickerLeft = 0, !.tickerC = FALSE,
              !.elapsed = 0, !.stalls = 0, !.cancelAge = -1]

\* The handler returns and net/http ends the response: a response with no
\* explicit status gets 200.
Finished(r, how) ==
    Gone([r EXCEPT !.pc = "done", !.exit = how,
                   !.status = IF r.status = NoStatus THEN StatusOK ELSE r.status,
                   !.over = IF r.elapsed < r.pause THEN -1
                            ELSE Min(r.elapsed - r.pause, Late)])

\* Variant: the line is written and the loop goes on without a flush.
Written_NoFlush(r) ==
    [r EXCEPT !.pc = "select", !.ticks = r.ticks + 1,
              !.status = IF r.status = NoStatus THEN StatusOK ELSE r.status]

\* ------------------------------------------------ Server.slow: select loop
\* rw.Write returned nil: the line is in the body (the first write of a
\* response with no explicit status sends 200); the handler calls Flush.
Written(r) ==
    [r EXCEPT !.pc = "flush", !.ticks = r.ticks + 1,
              !.status = IF r.status = NoStatus THEN StatusOK ELSE r.status]

\* Variant: the write error is noted and the handler goes on to the flush.
WriteFailed_GoesOn(r) == [r EXCEPT !.pc = "flush", !.exit = "werr"]

\* rw.Write returned an error: return (line 113)
WriteFailed(r) == Finished(r, "werr")

\* case tick := <-ticker.C: rw.Write of the tick line, which fails or not.
TickTaken(r) ==
    LET got == [r EXCEPT !.tickerC = FALSE] IN {Written(got), WriteFailed(got)}

\* Variant: on the timer the handler writes a gateway-timeout status.
Take_TimeoutStatus(r, c) ==
    CASE c = "req" -> {Finished(r, "req")}
      [] c = "ctx" -> {Finished(r, "ctx")}
      [] c = "timer" -> {Finished([r EXCEPT !.status = StatusGatewayTimeout], "timer")}
      [] c = "tick" -> TickTaken(r)

\* The select at line 101 proceeds with case c.
Take(r, c) ==
    CASE c = "req" -> {Finished(r, "req")}
      [] c = "ctx" -> {Finished(r, "ctx")}
      [] c = "timer" -> {Finished(r, "timer")}
      [] c = "tick" -> TickTaken(r)

\* The cases of the select that can proceed when the handler reaches it;
\* sig: s.ctx is cancelled.
ReadyCases(r, sig) ==
    {c \in {"req", "ctx", "timer", "tick"} :
        \/ c = "req" /\ r.reqDone
        \/ c = "ctx" /\ sig
        \/ c = "timer" /\ r.timerC
        \/ c = "tick" /\ r.tickerC}

\* The handler reaches the select: it proceeds with any one of the cases
\* that are ready, and blocks when none is.
SelectResults(r, sig) ==
    IF ReadyCases(r, sig) = {} THEN {[r EXCEPT !.pc = "select"]}
    ELSE UNION {Take(r, c) : c \in ReadyCases(r, sig)}

\* A channel of case c becomes ready: a handler blocked in the select
\* proceeds with that case; any other handler finds it ready later.
Deliver(r, c) == IF r.pc = "select" THEN Take(r, c) ELSE {r}

\* ------------------------------------------------------------ the handlers
\* Server.slow, lines 81-85: the default duration.
DefaultDuration(v) == IF v = <<>> THEN <<"1", "0", "s">> ELSE v

\* Variant: a malformed duration is taken as zero and no status is written.
ParsedReq_NoStatus(r) ==
    LET parsed == ParseDuration(DefaultDuration(SlowVar(r.path)))
    IN  [r EXCEPT !.pause = parsed.d, !.perr = ~parsed.ok]

\* Server.slow, lines 81-91: parse the duration, 400 on error; no return.
ParsedReq(r) ==
    LET parsed == ParseDuration(DefaultDuration(SlowVar(r.path)))
    IN  [r EXCEPT !.pause = parsed.d,
                  !.perr = ~parsed.ok,
                  !.status = IF parsed.ok THEN r.status ELSE StatusBadRequest]

\* Variant: the first tick comes half a second after the start.
ArmedReq_EarlyTick(r) ==
    [r EXCEPT !.timerOn = TRUE, !.timerLeft = r.pause,
              !.tickerOn = TRUE, !.tickerLeft = TickInterval \div 2]

\* Variant: the timer is armed with half the delay.
ArmedReq_ShortTimer(r) ==
    [r EXCEPT !.timerOn = TRUE, !.timerLeft = r.pause \div 2,
              !.tickerOn = TRUE, !.tickerLeft = TickInterval]

\* Server.slow, lines 93-98: the timer, then the ticker.
ArmedReq(r) ==
    [r EXCEPT !.timerOn = TRUE, !.timerLeft = r.pause,
              !.tickerOn = TRUE, !.tickerLeft = TickInterval]

\* Server.slow up to its first blocking call.
SlowStart(r, sig) == SelectResults(ArmedReq(ParsedReq(r)), sig)

\* Server.fail
FailHandler(r) == Finished([r EXCEPT !.status = StatusGatewayTimeout], "fail")

\* mux's NotFoundHandler
NotFoundHandler(r) == Finished([r EXCEPT !.status = StatusNotFound], "notfound")

\* Variant: the route of /fail is registered for GET only.
Dispatch_GetOnly(r, sig) ==
    CASE r.route = "slow" -> SlowStart(r, sig)
      [] r.route = "fail" /\ r.method = "GET" -> {FailHandler(r)}
      [] OTHER -> {NotFoundHandler(r)}

\* ServeHTTP of the router: the handler of the matching route runs.
Dispatch(r, sig) ==
    CASE r.route = "slow" -> SlowStart(r, sig)
      [] r.route = "fail" -> {FailHandler(r)}
      [] OTHER -> {NotFoundHandler(r)}

\* http.Server accepts a request; its goroutine runs the handler up to the
\* first blocking call.
Serve(h, p) ==
    /\ Alive
    /\ listener = "open"
    /\ reqs[h].pc = "none"
    /\ \A g \in Reqs : g < h => reqs[g].pc # "none"
    /\ \E m \in Methods :
         \E r \in Dispatch([reqs[h] EXCEPT !.method = m,
                                           !.path = PathOf(p),
                                           !.query = QueryOf(p),
                                           !.route = Route(PathOf(p))], sigDone) :
            reqs' = [reqs EXCEPT ![h] = r]
    /\ UNCHANGED mainVars

\* The response writer of net/http implements http.Flusher (line 116).
IsFlusher == TRUE

\* lines 116-119: f.Flush() returned; the loop goes back to the select
Flushed(r, sig) ==
    SelectResults([r EXCEPT !.flushes = IF IsFlusher THEN r.flushes + 1 ELSE r.flushes], sig)

Flush(h) ==
    /\ Alive
    /\ reqs[h].pc = "flush"
    /\ \E r \in Flushed(reqs[h], sigDone) : reqs' = [reqs EXCEPT ![h] = r]
    /\ UNCHANGED mainVars

\* ------------------------------------------------------- timers and client
\* The runtime sends on timer.C (buffered, one slot) when the timer is due.
TimerFired(r) == Deliver([r EXCEPT !.timerOn = FALSE, !.timerC = TRUE], "timer")

TimerFire(h) ==
    /\ Alive
    /\ reqs[h].timerOn
    /\ reqs[h].timerLeft <= 0
    /\ \E r \in TimerFired(reqs[h]) : reqs' = [reqs EXCEPT ![h] = r]
    /\ UNCHANGED mainVars

\* Variant: the ticker is not re-armed and is due again at once.
TickerFired_Burst(r) == Deliver([r EXCEPT !.tickerC = TRUE], "tick")

\* The runtime sends on ticker.C (buffered, one slot; a tick is dropped when
\* the slot is full) and re-arms the ticker.
TickerFired(r) ==
    Deliver([r EXCEPT !.tickerC = TRUE, !.tickerLeft = r.tickerLeft + TickInterval], "tick")

\* Variant: the ticker may deliver before a timer due at the same instant.
TickerDue_Unordered(r) == r.tickerOn /\ r.tickerLeft <= 0

\* Of the two timers of a handler due at the same instant, the one created
\* first (the timer) fires first.
TickerDue(r) ==
    /\ r.tickerOn
    /\ r.tickerLeft <= 0
    /\ ~(r.timerOn /\ r.timerLeft <= r.tickerLeft)

TickerFire(h) ==
    /\ Alive
    /\ TickerDue(reqs[h])
    /\ \E r \in TickerFired(reqs[h]) : reqs' = [reqs EXCEPT ![h] = r]
    /\ UNCHANGED mainVars

\* Variant: the select has no case for the request's context.
Cancelled_Unwatched(r) == {[r EXCEPT !.reqDone = TRUE, !.cancelAge = 0]}

\* The client goes away: net/http cancels the request's context.
Cancelled(r) == Deliver([r EXCEPT !.reqDone = TRUE, !.cancelAge = 0], "req")

\* Variant: the handlers share one request context.
ClientCancel_Shared(h) ==
    /\ Alive
    /\ InFlight(h)
    /\ ~reqs[h].reqDone
    /\ reqs' = [g \in Reqs |->
                  IF reqs[g].pc \in {"select", "flush"} /\ ~reqs[g].reqDone
                  THEN CHOOSE r \in Cancelled(reqs[g]) : TRUE
                  ELSE reqs[g]]
    /\ UNCHANGED mainVars

ClientCancel(h) ==
    /\ Alive
    /\ InFlight(h)
    /\ ~reqs[h].reqDone
    /\ \E r \in Cancelled(reqs[h]) : reqs' = [reqs EXCEPT ![h] = r]
    /\ UNCHANGED mainVars

\* -------------------------------------------------------------------- main
\* The handlers that watch s.ctx see it cancelled.
CtxCancelled(rs) == [h \in Reqs |-> CHOOSE r \in Deliver(rs[h], "ctx") : TRUE]

\* SIGINT or SIGTERM: ctx is cancelled, and runningCtx, its child, with it.
Signal ==
    /\ Alive
    /\ ~sigDone
    /\ sigDone' = TRUE
    /\ runningDone' = TRUE
    /\ reqs' = CtxCancelled(reqs)
    /\ UNCHANGED <<listener, mainPc, shutdownLeft, shutdownErr>>

\* Variant: the error of ListenAndServe is logged and nothing more.
ListenFail_Logged ==
    /\ mainPc = "wait"
    /\ listener = "open"
    /\ listener' = "failed"
    /\ UNCHANGED <<sigDone, runningDone, mainPc, shutdownLeft, shutdownErr, reqs>>

\* ListenAndServe returns an error other than ErrServerClosed: runningCancel().
ListenFail ==
    /\ mainPc = "wait"
    /\ listener = "open"
    /\ listener' = "failed"
    /\ runningDone' = TRUE
    /\ UNCHANGED <<sigDone, mainPc, shutdownLeft, shutdownErr, reqs>>

\* <-runningCtx.Done() returns; server.Shutdown(shutdownCtx) closes the
\* listener and waits for the connections to become idle.
MainShutdown ==
    /\ mainPc = "wait"
    /\ runningDone
    /\ mainPc' = "shutdown"
    /\ listener' = IF listener = "open" THEN "closed" ELSE listener
    /\ shutdownLeft' = Minute
    /\ UNCHANGED <<sigDone, runningDone, shutdownErr, reqs>>

AllIdle == \A h \in Reqs : ~InFlight(h)

\* Variant: main does not wait for the connections to become idle.
ShutdownIdle_NoWait ==
    /\ mainPc = "shutdown"
    /\ mainPc' = "exited"
    /\ shutdownLeft' = 0
    /\ UNCHANGED <<sigDone, runningDone, listener, shutdownErr, reqs>>

\* server.Shutdown returns nil; main returns, the process exits.
ShutdownIdle ==
    /\ mainPc = "shutdown"
    /\ AllIdle
    /\ mainPc' = "exited"
    /\ shutdownLeft' = 0
    /\ UNCHANGED <<sigDone, runningDone, listener, shutdownErr, reqs>>

\* The process exits: the goroutines still serving requests are gone.
Killed(r) == IF r.pc \in {"select", "flush"} THEN Gone([r EXCEPT !.pc = "killed"]) ELSE r

\* Variant: on the error of server.Shutdown main calls it again with a new
\* deadline.
ShutdownTimeout_Retry ==
    /\ mainPc = "shutdown"
    /\ ~AllIdle
    /\ shutdownLeft <= 0
    /\ shutdownLeft' = Minute
    /\ UNCHANGED <<sigDone, runningDone, listener, mainPc, shutdownErr, reqs>>

\* shutdownCtx expires: server.Shutdown returns its error, main logs the
\* warning and returns, the process exits.
ShutdownTimeout ==
    /\ mainPc = "shutdown"
    /\ ~AllIdle
    /\ shutdownLeft <= 0
    /\ mainPc' = "exited"
    /\ shutdownErr' = TRUE
    /\ shutdownLeft' = 0
    /\ reqs' = [h \in Reqs |-> Killed(reqs[h])]
    /\ UNCHANGED <<sigDone, runningDone, listener>>

\* -------------------------------------------------------------------- time
\* main can step without waiting for anything.
MainRunnable ==
    \/ mainPc = "wait" /\ runningDone
    \/ mainPc = "shutdown" /\ (AllIdle \/ shutdownLeft <= 0)

\* The times left until something can happen: on an armed timer, on a ticker
\* whose channel is empty, on shutdownCtx.  (A tick sent to a full channel
\* is dropped: it is no event.)
Waits ==
    {reqs[h].timerLeft : h \in {g \in Reqs : reqs[g].timerOn}}
      \cup {reqs[h].tickerLeft : h \in {g \in Reqs : reqs[g].tickerOn /\ ~reqs[g].tickerC}}
      \cup (IF mainPc = "shutdown" THEN {shutdownLeft} ELSE {})

MinOf(S) == CHOOSE x \in S : \A y \in S : x <= y

\* Time d passes for a request: a goroutine in a flush has been kept
\* waiting, and the ticks a full channel dropped meanwhile are gone.
Passed(r, d) ==
    IF r.pc \notin {"select", "flush"} THEN r
    ELSE [r EXCEPT
            !.elapsed = r.elapsed + d,
            !.timerLeft = IF r.timerOn THEN r.timerLeft - d ELSE r.timerLeft,
            !.tickerLeft = IF r.tickerC THEN (r.tickerLeft - d) % TickInterval
                           ELSE r.tickerLeft - d,
            !.stalls = IF r.pc = "flush" THEN r.stalls + 1 ELSE r.stalls,
            !.slow = r.slow \/ r.pc = "flush",
            !.cancelAge = IF r.cancelAge < 0 THEN r.cancelAge
                          ELSE Min(r.cancelAge + d, Late)]

\* Time passes up to the next timer that is due, once everything due now has
\* happened.
Advance ==
    /\ Alive
    /\ ~MainRunnable
    /\ Waits # {}
    /\ \A d \in Waits : d > 0
    /\ \A h \in Reqs : reqs[h].tickerOn => reqs[h].tickerLeft > 0
    /\ \A h \in Reqs : reqs[h].pc = "flush" => reqs[h].stalls < MaxStall
    /\ reqs' = [h \in Reqs |-> Passed(reqs[h], MinOf(Waits))]
    /\ shutdownLeft' = IF mainPc = "shutdown" THEN shutdownLeft - MinOf(Waits) ELSE shutdownLeft
    /\ UNCHANGED <<sigDone, runningDone, listener, mainPc, shutdownErr>>

Next ==
    \/ \E h \in Reqs, p \in Paths : Serve(h, p)
    \/ \E h \in Reqs : Flush(h)
    \/ \E h \in Reqs : TimerFire(h)
    \/ \E h \in Reqs : TickerFire(h)
    \/ \E h \in Reqs : ClientCancel(h)
    \/ Signal
    \/ ListenFail
    \/ MainShutdown
    \/ ShutdownIdle
    \/ ShutdownTimeout
    \/ Advance

Spec == Init /\ [][Next]_vars

\* The server with a single request, for the properties that need fair
\* scheduling: a flush in progress returns, and a select with an exit case
\* ready does not pick the tick for ever (it picks among the ready cases at
\* random); the runtime fires the timers that are due; time passes; main runs.
\* Requests, cancellations, signals and listener failures are the
\* environment's and may never happen.
FirstReq == CHOOSE h \in Reqs : \A g \in Reqs : h <= g

FlushExit(h) == Flush(h) /\ reqs'[h].pc = "done" /\ reqs'[h].exit # "werr"

FairNext ==
    \/ \E p \in Paths : Serve(FirstReq, p)
    \/ Flush(FirstReq)
    \/ TimerFire(FirstReq)
    \/ TickerFire(FirstReq)
    \/ ClientCancel(FirstReq)
    \/ Signal
    \/ ListenFail
    \/ MainShutdown
    \/ ShutdownIdle
    \/ ShutdownTimeout
    \/ Advance

FairSpec ==
    /\ Init /\ [][FairNext]_vars
    /\ WF_vars(Flush(FirstReq)) /\ SF_vars(FlushExit(FirstReq))
    /\ WF_vars(TimerFire(FirstReq)) /\ WF_vars(TickerFire(FirstReq))
    /\ WF_vars(Advance)
    /\ WF_vars(MainShutdown) /\ WF_vars(ShutdownIdle) /\ WF_vars(ShutdownTimeout)

\* ------------------------------------------------- the sleep-only server
\* The other main of the repository: the same main and the same parse of the
\* duration, a Server with no context, the route of /slow alone, and a slow
\* handler that sleeps for the delay.  A sleeping handler has pc "sleep";
\* the time left of its sleep is kept in timerLeft.
SleepPaths == Paths \cup { SlowPrefix \o <<"2", "m">> }

\* Server.handler: the route "/slow/{duration}" and no other.
SleepRoute(path) == IF MatchSlow(path) THEN "slow" ELSE "notfound"

\* Server.slow: the parse of the duration, 400 on error and no return, then
\* time.Sleep(pause), which returns at once for a pause of zero or less.
SleepStart(r) ==
    LET parsed == ParsedReq(r)
    IN  IF parsed.pause <= 0 THEN Finished(parsed, "slept")
        ELSE [parsed EXCEPT !.pc = "sleep", !.timerOn = TRUE, !.timerLeft = parsed.pause]

SleepDispatch(r) ==
    IF r.route = "slow" THEN SleepStart(r) ELSE NotFoundHandler(r)

SleepServe(h, p) ==
    /\ Alive
    /\ listener = "open"
    /\ reqs[h].pc = "none"
    /\ \A g \in Reqs : g < h => reqs[g].pc # "none"
    /\ \E m \in Methods :
         reqs' = [reqs EXCEPT ![h] =
                    SleepDispatch([reqs[h] EXCEPT !.method = m,
                                                  !.path = PathOf(p),
                                                  !.query = QueryOf(p),
                                                  !.route = SleepRoute(PathOf(p))])]
    /\ UNCHANGED mainVars

\* time.Sleep returns; the handler returns.
SleepWake(h) ==
    /\ Alive
    /\ reqs[h].pc = "sleep"
    /\ reqs[h].timerLeft <= 0
    /\ reqs' = [reqs EXCEPT ![h] = Finished(reqs[h], "slept")]
    /\ UNCHANGED mainVars

\* The client goes away: the request's context is cancelled; the handler
\* does not look at it.
SleepClientCancel(h) ==
    /\ Alive
    /\ reqs[h].pc = "sleep"
    /\ ~reqs[h].reqDone
    /\ reqs' = [reqs EXCEPT ![h].reqDone = TRUE, ![h].cancelAge = 0]
    /\ UNCHANGED mainVars

\* SIGINT or SIGTERM: ctx and runningCtx are cancelled; no handler holds
\* either.
SleepSignal ==
    /\ Alive
    /\ ~sigDone
    /\ sigDone' = TRUE
    /\ runningDone' = TRUE
    /\ UNCHANGED <<listener, mainPc, shutdownLeft, shutdownErr, reqs>>

SleepAllIdle == \A h \in Reqs : reqs[h].pc # "sleep"

SleepShutdownIdle ==
    /\ mainPc = "shutdown"
    /\ SleepAllIdle
    /\ mainPc' = "exited"
    /\ shutdownLeft' = 0
    /\ UNCHANGED <<sigDone, runningDone, listener, shutdownErr, reqs>>

SleepKilled(r) == IF r.pc = "sleep" THEN Gone([r EXCEPT !.pc = "killed"]) ELSE r

SleepShutdownTimeout ==
    /\ mainPc = "shutdown"
    /\ ~SleepAllIdle
    /\ shutdownLeft <= 0
    /\ mainPc' = "exited"
    /\ shutdownErr' = TRUE
    /\ shutdownLeft' = 0
    /\ reqs' = [h \in Reqs |-> SleepKilled(reqs[h])]
    /\ UNCHANGED <<sigDone, runningDone, listener>>

SleepMainRunnable ==
    \/ mainPc = "wait" /\ runningDone
    \/ mainPc = "shutdown" /\ (SleepAllIdle \/ shutdownLeft <= 0)

SleepPassed(r, d) ==
    IF r.pc # "sleep" THEN r
    ELSE [r EXCEPT
            !.elapsed = r.elapsed + d,
            !.timerLeft = r.timerLeft - d,
            !.cancelAge = IF r.cancelAge < 0 THEN r.cancelAge
                          ELSE Min(r.cancelAge + d, Late)]

SleepAdvance ==
    /\ Alive
    /\ ~SleepMainRunnable
    /\ Waits # {}
    /\ \A d \in Waits : d > 0
    /\ reqs' = [h \in Reqs |-> SleepPassed(reqs[h], MinOf(Waits))]
    /\ shutdownLeft' = IF mainPc = "shutdown" THEN shutdownLeft - MinOf(Waits) ELSE shutdownLeft
    /\ UNCHANGED <<sigDone, runningDone, listener, mainPc, shutdownErr>>

SleepNext ==
    \/ \E h \in Reqs, p \in SleepPaths : SleepServe(h, p)
    \/ \E h \in Reqs : SleepWake(h)
    \/ \E h \in Reqs : SleepClientCancel(h)
    \/ SleepSignal
    \/ ListenFail
    \/ MainShutdown
    \/ SleepShutdownIdle
    \/ SleepShutdownTimeout
    \/ SleepAdvance

SleepSpec == Init /\ [][SleepNext]_vars

\* ------------------------------------------------------------------ claims
\* The delay timer of the handler has elapsed.
TimerElapsed(r) == r.timerC \/ (r.timerOn /\ r.timerLeft <= 0)

\* One of the three exit events of handler h has occurred.
ExitEvent(h) == TimerElapsed(reqs[h]) \/ reqs[h].reqDone \/ sigDone

\* C1 as claimed, its bound: a handler whose client cancelled is not in
\* flight more than one tick interval later.
C1_ReturnsWithinTick ==
    \A h \in Reqs : InFlight(h) /\ reqs[h].reqDone => reqs[h].cancelAge <= TickInterval

\* C1 as amended: once the timer has elapsed, the client has cancelled or
\* s.ctx is cancelled, the handler eventually returns; a handler blocked in
\* the select returns with the event itself (it is never left waiting in the
\* select with the client gone, s.ctx cancelled or timer.C full), and a
\* handler in flight after such an event is in a flush, however long ago the
\* event was.
C1_NeverOutlives ==
    /\ \A h \in Reqs : (ExitEvent(h) /\ InFlight(h)) ~> ~InFlight(h)
    /\ [](\A h \in Reqs :
            reqs[h].pc = "select" =>
                ~reqs[h].reqDone /\ ~sigDone /\ ~reqs[h].timerC)

\* C1 witness: a handler still in a flush more than a tick interval after
\* its client cancelled.
C1_Witness ==
    \E h \in Reqs :
        reqs[h].pc = "flush" /\ reqs[h].reqDone /\ reqs[h].cancelAge > TickInterval

\* C2 as claimed: once an exit event of a handler has occurred, no later
\* step writes a tick line of that handler, whatever the handler was doing
\* when the event occurred.
C2_NoTickAfterExitEvent ==
    [][\A h \in Reqs :
         ExitEvent(h) /\ InFlight(h) => reqs'[h].ticks = reqs[h].ticks]_vars

\* C2 as amended: a handler blocked in the select when an exit event occurs
\* returns on it: a step out of the select after which the timer has
\* elapsed, the client has cancelled or s.ctx is cancelled writes no tick
\* line and leaves the status as it was (200 when none was written yet); and
\* a handler that has returned writes nothing more.
C2_FirstEventWinsInSelect ==
    [][\A h \in Reqs :
         /\ (reqs[h].pc = "select" /\ ExitEvent(h)') =>
                /\ reqs'[h].ticks = reqs[h].ticks
                /\ reqs'[h].pc \in {"select", "done"}
                /\ reqs'[h].status \in {reqs[h].status, StatusOK}
                /\ reqs[h].status # NoStatus => reqs'[h].status = reqs[h].status
         /\ reqs[h].pc = "done" =>
                reqs'[h].ticks = reqs[h].ticks /\ reqs'[h].status = reqs[h].status]_vars

\* C2 witness: a handler that wrote tick lines, was blocked in the select
\* and returned on its client's cancellation.
C2_Witness ==
    \E h \in Reqs :
        /\ reqs[h].pc = "done" /\ reqs[h].exit = "req"
        /\ reqs[h].ticks > 0 /\ ~reqs[h].slow

\* C3 as claimed: whenever the shutdown sequence has been initiated, by a
\* signal or by a failure of the listener, the context every slow handler
\* watches is cancelled and no handler is left waiting in its select.
C3_ShutdownCancelsHandlers ==
    runningDone => sigDone /\ \A h \in Reqs : reqs[h].pc # "select"

\* C4 as claimed: a handler that ran to its timer, with a well-formed
\* duration of N seconds and no cancellation, wrote floor(N) tick lines.
C4_FloorTicks ==
    \A h \in Reqs :
        (reqs[h].pc = "done" /\ reqs[h].exit = "timer" /\ ~reqs[h].perr
            /\ ~reqs[h].reqDone /\ ~reqs[h].slow)
        => reqs[h].ticks = reqs[h].pause \div Second

\* Whole tick intervals strictly shorter than d.
TicksBefore(d) == IF d <= 0 THEN 0 ELSE (d - 1) \div TickInterval

\* C4 as amended: a handler that ran to its timer, with a well-formed
\* duration d and no flush during which time passed, wrote one tick line for
\* each whole second strictly less than d: floor(N) when N is not whole,
\* N - 1 when it is, none below one second.
C4_TicksBeforeTimer ==
    \A h \in Reqs :
        (reqs[h].pc = "done" /\ reqs[h].exit = "timer" /\ ~reqs[h].perr
            /\ ~reqs[h].slow)
        => reqs[h].ticks = TicksBefore(reqs[h].pause)

\* C4 witness: a request of two whole seconds that ran to its timer and
\* wrote one tick line.
C4_Witness ==
    \E h \in Reqs :
        /\ reqs[h].pc = "done" /\ reqs[h].exit = "timer" /\ ~reqs[h].slow
        /\ reqs[h].pause = 2 * Second /\ reqs[h].ticks = 1

\* C5 as claimed: a handler whose duration is malformed returns right after
\* the 400: it has no timer and no ticker and is never in the select loop.
C5_ReturnsAfterBadRequest ==
    \A h \in Reqs :
        reqs[h].perr =>
            /\ ~reqs[h].timerOn /\ ~reqs[h].tickerOn
            /\ reqs[h].pc \notin {"select", "flush"}

\* C6: a request with a malformed duration never gets a tick line, and its
\* status is 400 from the parse on, and still 400 when the handler returned.
C6_BadRequestEmpty ==
    \A h \in Reqs :
        reqs[h].perr => reqs[h].ticks = 0 /\ reqs[h].status = StatusBadRequest

\* C6 witness: a request with a malformed duration whose handler returned.
C6_Witness ==
    \E h \in Reqs :
        reqs[h].perr /\ reqs[h].pc = "done" /\ reqs[h].route = "slow"

\* C7 as claimed: a request of "/slow/", with the duration empty, is served
\* by the slow handler with the delay of ten seconds.
C7_EmptyMeansTenSeconds ==
    \A h \in Reqs :
        (reqs[h].pc # "none" /\ reqs[h].path = SlowPrefix)
        => reqs[h].route = "slow" /\ reqs[h].status # StatusNotFound

\* C8: the step in which a write of a tick line fails ends the handler: it
\* has returned, no line was counted for that write and the flushes made are
\* those of the lines written before,
\* and the listener, the contexts and main are as before; afterwards the
\* handler stays returned and writes and flushes nothing.
C8_WriteFailureEndsHandler ==
    [][\A h \in Reqs :
         /\ (reqs'[h].exit = "werr" /\ reqs[h].exit # "werr") =>
                /\ reqs'[h].pc = "done"
                /\ reqs'[h].ticks = reqs[h].ticks
                /\ reqs'[h].flushes = reqs'[h].ticks
                /\ UNCHANGED mainVars
         /\ reqs[h].exit = "werr" =>
                /\ reqs'[h].pc = "done"
                /\ reqs'[h].ticks = reqs[h].ticks
                /\ reqs'[h].flushes = reqs[h].flushes]_vars

\* C8 witness: a handler ended by a failed write after a line that was
\* written, with the listener still open and main still waiting.
C8_Witness ==
    \E h \in Reqs :
        /\ reqs[h].exit = "werr" /\ reqs[h].pc = "done" /\ reqs[h].ticks > 0
        /\ listener = "open" /\ mainPc = "wait" /\ ~runningDone

\* C9: the handlers are independent. A step of one request (its arrival,
\* the return of its flush, its timer, its ticker, its client's
\* cancellation) leaves every other request as it was; only a signal, the
\* passing of time and the exit of the process touch more than one. And with
\* another request around, a handler with no slow flush of its own still
\* returns at the instant its own timer elapses.
C9_Independent ==
    /\ [][\A h \in Reqs : \A g \in Reqs \ {h} :
            (\/ \E p \in Paths : Serve(g, p)
             \/ Flush(g) \/ TimerFire(g) \/ TickerFire(g) \/ ClientCancel(g))
            => reqs'[h] = reqs[h]]_vars
    /\ [](\A h \in Reqs :
            (reqs[h].pc = "done" /\ reqs[h].exit = "timer" /\ ~reqs[h].slow
                /\ \E g \in Reqs \ {h} : reqs[g].pc # "none")
            => reqs[h].over = 0)

\* C9 witness: a later, shorter request has returned on its timer while an
\* earlier request is still waiting, and another handler was ended by a write
\* failure or a cancellation while one goes on.
C9_Witness ==
    \E h \in Reqs : \E g \in Reqs \ {h} :
        /\ reqs[h].pc = "done" /\ reqs[h].exit \in {"werr", "req"}
        /\ reqs[g].pc = "select" /\ reqs[g].ticks > 0

C11_FailAlways504 ==
    \A h \in Reqs :
        (reqs[h].pc # "none" /\ reqs[h].path = FailPath) =>
            /\ reqs[h].route = "fail" /\ reqs[h].exit = "fail"
            /\ reqs[h].pc = "done"
            /\ reqs[h].status = StatusGatewayTimeout
            /\ reqs[h].ticks = 0 /\ reqs[h].flushes = 0

\* C11 witness: a POST of /fail with a query answered with 504 while a slow
\* handler is waiting in its select.
C11_Witness ==
    \E h \in Reqs : \E g \in Reqs \ {h} :
        /\ reqs[g].pc = "select"
        /\ reqs[h].path = FailPath /\ reqs[h].method = "POST" /\ reqs[h].query # <<>>
        /\ reqs[h].status = StatusGatewayTimeout /\ reqs[h].pc = "done"

\* C12: a failure of the listener cancels runningCtx, and from there main
\* leaves its wait, goes through server.Shutdown and exits; no signal is
\* needed for it.
C12_ListenFailureFatal ==
    /\ [](listener = "failed" => runningDone)
    /\ (listener = "failed") ~> (mainPc = "shutdown" \/ mainPc = "exited")
    /\ (listener = "failed") ~> (mainPc = "exited")

\* C12 witness: the process has exited after a failure of the listener, with
\* no signal received.
C12_Witness == listener = "failed" /\ mainPc = "exited" /\ ~sigDone

\* C13: once runningCtx is cancelled the process exits; main is in
\* server.Shutdown for one minute at most, the deadline is never moved, main
\* leaves Shutdown only to exit, and an error of Shutdown is found only with
\* main exited.
C13_ShutdownExits ==
    /\ runningDone ~> (mainPc = "exited")
    /\ [](mainPc = "shutdown" => shutdownLeft >= 0 /\ shutdownLeft <= Minute)
    /\ [][mainPc = "shutdown" =>
            shutdownLeft' <= shutdownLeft /\ mainPc' \in {"shutdown", "exited"}]_vars
    /\ [](shutdownErr => mainPc = "exited")

\* C13 witness: the process has exited on the expiry of shutdownCtx, with a
\* handler ended by the exit.
C13_Witness ==
    mainPc = "exited" /\ shutdownErr /\ \E h \in Reqs : reqs[h].pc = "killed"

\* C14 as claimed: the listener is closed only with every handler returned
\* or the minute of shutdownCtx expired.
C14_ListenerClosedLast ==
    listener = "closed" => (AllIdle \/ shutdownLeft <= 0 \/ mainPc = "exited")

\* C14 as amended: the listener is closed when server.Shutdown starts and
\* by nothing else, so that it is not open at any time of the grace period;
\* what waits is the exit: main leaves Shutdown, and the process ends the
\* handlers still in flight, only with every handler returned or the minute
\* of shutdownCtx expired.
C14_ExitWaitsForHandlers ==
    /\ [](mainPc = "shutdown" => listener # "open")
    /\ [](listener = "closed" => mainPc \in {"shutdown", "exited"})
    /\ [][(mainPc = "shutdown" /\ mainPc' = "exited") =>
            (AllIdle \/ shutdownLeft <= 0)]_vars
    /\ [][\A h \in Reqs :
            (reqs'[h].pc = "killed" /\ reqs[h].pc # "killed") =>
                (mainPc = "shutdown" /\ shutdownLeft <= 0)]_vars

\* C14 witness: in the middle of the grace period, the listener closed and
\* a handler still in flight.
C14_Witness ==
    /\ mainPc = "shutdown" /\ listener = "closed"
    /\ shutdownLeft > 0 /\ shutdownLeft < Minute
    /\ \E h \in Reqs : InFlight(h)

\* C15: a successful write of a tick line takes the handler straight into
\* the flush of that line, and the handler waits in the select, or has
\* returned, only with as many flushes made as lines written; in a flush one
\* line is still to be flushed.
C15_EveryLineFlushed ==
    /\ [](\A h \in Reqs :
            /\ reqs[h].pc \in {"select", "done"} => reqs[h].flushes = reqs[h].ticks
            /\ reqs[h].pc = "flush" => reqs[h].flushes + 1 = reqs[h].ticks)
    /\ [][\A h \in Reqs :
            reqs'[h].ticks # reqs[h].ticks =>
                /\ reqs'[h].ticks = reqs[h].ticks + 1
                /\ reqs'[h].pc = "flush"]_vars

\* C15 witness: a handler back in its select with a line written and
\* flushed.
C15_Witness ==
    \E h \in Reqs :
        reqs[h].pc = "select" /\ reqs[h].ticks > 0 /\ reqs[h].flushes = reqs[h].ticks

\* C16 as claimed: a handler of the sleep-only server is not left sleeping
\* once its client has cancelled or the process has received a signal.
C16_SleepHonoursCancellation ==
    \A h \in Reqs : reqs[h].pc = "sleep" => ~reqs[h].reqDone /\ ~sigDone

\* C17: a handler in flight has written at most one tick line for each
\* whole second since it created its ticker, whatever the flushes did; and
\* a handler that returned on its timer at the instant its delay elapsed has
\* written at most floor(N) lines for a delay of N seconds.
C17_TicksAtMostSeconds ==
    \A h \in Reqs :
        /\ InFlight(h) => reqs[h].ticks * TickInterval <= reqs[h].elapsed
        /\ (reqs[h].pc = "done" /\ reqs[h].exit = "timer" /\ reqs[h].over = 0
               /\ reqs[h].pause >= 0)
           => reqs[h].ticks <= reqs[h].pause \div Second

\* C17 witness: a handler whose flush was slow, with as many lines written
\* as whole seconds have passed, two of them.
C17_Witness ==
    \E h \in Reqs :
        /\ InFlight(h) /\ reqs[h].slow
        /\ reqs[h].ticks = 2 /\ reqs[h].elapsed = 2 * Second

\* C18: the status of a response, once written, is never written again (so
\* never after a line of the body, whose first write sends 200); 400 is the
\* status of malformed durations alone, and of responses with no line; and a
\* slow request with a well-formed duration has no status before its first
\* line, 200 from it on, and 200 when the handler has returned, by whichever
\* of the timer, the cancellations and a write failure.
C18_StatusOnce ==
    /\ [][\A h \in Reqs :
            reqs[h].status # NoStatus => reqs'[h].status = reqs[h].status]_vars
    /\ [](\A h \in Reqs :
            /\ reqs[h].status = StatusBadRequest => reqs[h].perr /\ reqs[h].ticks = 0
            /\ (reqs[h].route = "slow" /\ ~reqs[h].perr) =>
                  /\ reqs[h].status \in {NoStatus, StatusOK}
                  /\ reqs[h].ticks > 0 => reqs[h].status = StatusOK
                  /\ (InFlight(h) /\ reqs[h].ticks = 0) => reqs[h].status = NoStatus
                  /\ reqs[h].pc = "done" => reqs[h].status = StatusOK)

\* C18 witness: slow requests with well-formed durations have returned with
\* status 200, one on its timer with a line written, one on a failed write
\* with none.
C18_Witness ==
    \E h \in Reqs : \E g \in Reqs \ {h} :
        /\ reqs[h].pc = "done" /\ reqs[h].exit = "timer" /\ ~reqs[h].perr
        /\ reqs[h].ticks > 0 /\ reqs[h].status = StatusOK
        /\ reqs[g].pc = "done" /\ reqs[g].exit = "werr" /\ ~reqs[g].perr
        /\ reqs[g].ticks = 0 /\ reqs[g].status = StatusOK

=============================================================================
